---------------------------- MODULE Spec2Model ----------------------------
(***************************************************************************)
(* Model of the TipJar widget (src/src/components/TipJar.tsx): the React   *)
(* state of the component, the wallet provider it consumes through         *)
(* useWallet(), the promises its handlers await, and the balance poller    *)
(* installed by its useEffect.                                             *)
(***************************************************************************)
EXTENDS Integers, Sequences, FiniteSets, TLC

(***************************************************************************)
(* Bounds of the model.                                                    *)
(***************************************************************************)
\* provider promises that may be unsettled at once
MaxCalls == 2
\* getBalance reads that may be in flight at once
MaxInFlight == 2

(***************************************************************************)
(* Nullable values: null is the empty tuple, a value v is <<v>>.           *)
(***************************************************************************)
Null == <<>>
Some(v) == <<v>>
Val(o) == o[1]

(***************************************************************************)
(* JavaScript numbers.  A number is an IEEE-754 double, kept here as its   *)
(* 53-bit significand m and a binary exponent e: the value is m * 2^e.     *)
(* A significand, and every intermediate product, is a natural number      *)
(* written in limbs of LimbBits bits, least significant limb first.        *)
(* Results are rounded to nearest, ties to even, as the runtime does.      *)
(***************************************************************************)
MantissaBits == 53
LimbBits == 13
Base == 2^LimbBits

\* the limbs of a small natural number n
LimbsOfNat(n) == [i \in 1..3 |-> (n \div Base^(i - 1)) % Base]

\* the natural number a short limb string denotes
RECURSIVE NatFrom(_, _)
NatFrom(x, i) == IF i > Len(x) THEN 0 ELSE x[i] + Base * NatFrom(x, i + 1)

NatOfLimbs(x) == NatFrom(x, 1)

\* bit i of x (bit 0 is the least significant)
Bit(x, i) ==
  IF i < 0 \/ i \div LimbBits + 1 > Len(x) THEN 0
  ELSE (x[i \div LimbBits + 1] \div 2^(i % LimbBits)) % 2

\* number of significant bits of x
BitLen(x) ==
  LET S == { i \in 0..(LimbBits * Len(x) - 1) : Bit(x, i) = 1 }
  IN  IF S = {} THEN 0 ELSE (CHOOSE i \in S : \A j \in S : j <= i) + 1

\* the limb made of bits lo .. lo + LimbBits - 1 of x
RECURSIVE FieldFrom(_, _, _)
FieldFrom(x, lo, u) ==
  IF u = LimbBits THEN 0 ELSE Bit(x, lo + u) * 2^u + FieldFrom(x, lo, u + 1)

\* x \div 2^s and x * 2^s
ShiftRight(x, s) == [t \in 1..Len(x) |-> FieldFrom(x, s + LimbBits * (t - 1), 0)]

ShiftLeft(x, s) ==
  [t \in 1..(Len(x) + s \div LimbBits + 1) |-> FieldFrom(x, LimbBits * (t - 1) - s, 0)]

\* x + n for a small n: the carry into limb i, then the limbs
RECURSIVE AddCarry(_, _, _)
AddCarry(x, n, i) ==
  IF i = 1 THEN n ELSE (x[i - 1] + AddCarry(x, n, i - 1)) \div Base

AddSmall(x, n) ==
  [i \in 1..(Len(x) + 1) |->
     IF i <= Len(x) THEN (x[i] + AddCarry(x, n, i)) % Base
     ELSE AddCarry(x, n, i)]

\* x \div d and x % d for a small d: the remainder left after the limbs
\* above i, then the quotient limbs
RECURSIVE RemAbove(_, _, _)
RemAbove(x, d, i) ==
  IF i > Len(x) THEN 0 ELSE (RemAbove(x, d, i + 1) * Base + x[i]) % d

DivSmall(x, d) ==
  [q |-> [i \in 1..Len(x) |-> (RemAbove(x, d, i + 1) * Base + x[i]) \div d],
   r |-> RemAbove(x, d, 1)]

\* x * y: the sum of the limb products of weight Base^(k-1), the carry
\* into that column, then the limbs
RECURSIVE ColumnFrom(_, _, _, _)
ColumnFrom(x, y, k, i) ==
  IF i > Len(x) THEN 0
  ELSE (IF k + 1 - i >= 1 /\ k + 1 - i <= Len(y) THEN x[i] * y[k + 1 - i] ELSE 0)
       + ColumnFrom(x, y, k, i + 1)

RECURSIVE MulCarry(_, _, _)
MulCarry(x, y, k) ==
  IF k = 1 THEN 0
  ELSE (ColumnFrom(x, y, k - 1, 1) + MulCarry(x, y, k - 1)) \div Base

MulLimbs(x, y) ==
  [k \in 1..(Len(x) + Len(y)) |->
     (ColumnFrom(x, y, k, 1) + MulCarry(x, y, k)) % Base]

\* a significand on the limbs that hold MantissaBits bits
Significand(x) == SubSeq(x, 1, (MantissaBits + LimbBits - 1) \div LimbBits)

\* the double nearest to x * 2^e (x > 0)
RoundToDouble(x, e) ==
  LET L == BitLen(x) IN
  IF L <= MantissaBits
  THEN [m |-> Significand(ShiftLeft(x, MantissaBits - L)), e |-> e - (MantissaBits - L)]
  ELSE LET s      == L - MantissaBits
           q      == ShiftRight(x, s)
           sticky == \E i \in 0..(s - 2) : Bit(x, i) = 1
           up     == Bit(x, s - 1) = 1 /\ (sticky \/ Bit(q, 0) = 1)
           inc    == IF up THEN AddSmall(q, 1) ELSE q
       IN  IF BitLen(inc) > MantissaBits
           THEN [m |-> Significand(ShiftRight(inc, 1)), e |-> e + s + 1]
           ELSE [m |-> Significand(inc), e |-> e + s]

\* the double a decimal literal num/den (0 < num < den < 1024) denotes
ToDouble(lit) ==
  LET j   == CHOOSE n \in 1..10 :
               /\ lit.num * 2^n >= lit.den
               /\ lit.num * 2^(n - 1) < lit.den
      k   == MantissaBits - 1 + j
      d   == DivSmall(ShiftLeft(LimbsOfNat(lit.num), k), lit.den)
      up  == 2 * d.r > lit.den \/ (2 * d.r = lit.den /\ Bit(d.q, 0) = 1)
      inc == IF up THEN AddSmall(d.q, 1) ELSE d.q
  IN  IF BitLen(inc) > MantissaBits
      THEN [m |-> Significand(ShiftRight(inc, 1)), e |-> 1 - k]
      ELSE [m |-> Significand(inc), e |-> 0 - k]

\* the double an integer literal denotes
FromInt(n) == RoundToDouble(LimbsOfNat(n), 0)

\* a * b on doubles
MulDouble(a, b) == RoundToDouble(MulLimbs(a.m, b.m), a.e + b.e)

\* Math.floor of a non-negative double below 2^31, as an integer
MathFloor(x) ==
  IF x.e >= 0 THEN NatOfLimbs(ShiftLeft(x.m, x.e))
  ELSE NatOfLimbs(SubSeq(ShiftRight(x.m, 0 - x.e), 1, 3))

\* the double zero
Zero == [m |-> [i \in 1..5 |-> 0], e |-> 0]

\* the first j bits after the binary point of r/d (0 <= r < d < 2^30), most
\* significant first, and the remainder they leave; halves are composed so
\* that the expansion is computed in few nested steps
RECURSIVE Frac(_, _, _)
Frac(r, d, j) ==
  IF j = 0 THEN [bits |-> << >>, r |-> r]
  ELSE IF j = 1
  THEN IF 2 * r >= d THEN [bits |-> << 1 >>, r |-> 2 * r - d]
                     ELSE [bits |-> << 0 >>, r |-> 2 * r]
  ELSE LET a == Frac(r, d, j \div 2)
           b == Frac(a.r, d, j - j \div 2)
       IN  [bits |-> a.bits \o b.bits, r |-> b.r]

\* the limbs of a bit string written most significant bit first
LimbsOfBits(bits) ==
  LET at(k) == IF k < Len(bits) THEN bits[Len(bits) - k] ELSE 0
      b(t, u) == at(LimbBits * (t - 1) + u)
  IN  [t \in 1..(Len(bits) \div LimbBits + 1) |->
         b(t, 0) + 2 * b(t, 1) + 4 * b(t, 2) + 8 * b(t, 3) + 16 * b(t, 4)
         + 32 * b(t, 5) + 64 * b(t, 6) + 128 * b(t, 7) + 256 * b(t, 8)
         + 512 * b(t, 9) + 1024 * b(t, 10) + 2048 * b(t, 11) + 4096 * b(t, 12)]

\* n / d on doubles that hold the integers 0 <= n < 2^31 and 0 < d < 2^30:
\* the double nearest to the quotient
DivInts(n, d) ==
  IF n = 0 THEN Zero
  ELSE
  LET q0   == n \div d
      r0   == n % d
      L0   == BitLen(LimbsOfNat(q0))
      \* zero bits after the point before the first 1 bit, when q0 = 0
      z    == IF q0 > 0 THEN 0
              ELSE (CHOOSE k \in 1..30 :
                      /\ r0 >= (d - 1) \div 2^k + 1
                      /\ (k > 1 => r0 < (d - 1) \div 2^(k - 1) + 1)) - 1
      f    == z + MantissaBits - L0
      x    == Frac(r0, d, f)
      whole == ShiftLeft(LimbsOfNat(q0), f)
      frac == LimbsOfBits(x.bits)
      m    == [t \in 1..Len(whole) |->
                 whole[t] + (IF t <= Len(frac) THEN frac[t] ELSE 0)]
      up   == 2 * x.r > d \/ (2 * x.r = d /\ Bit(m, 0) = 1)
      inc  == IF up THEN AddSmall(m, 1) ELSE m
  IN  IF BitLen(inc) > MantissaBits
      THEN [m |-> Significand(ShiftRight(inc, 1)), e |-> 1 - f]
      ELSE [m |-> Significand(inc), e |-> 0 - f]

\* Number.prototype.toFixed(digits) of a non-negative double x: the integer
\* n for which n / 10^digits - x is closest to zero (the larger of two), as
\* its whole part and its decimals
ToFixed(x, digits) ==
  LET p == MulLimbs(x.m, LimbsOfNat(10^digits))
      n == IF x.e >= 0 THEN NatOfLimbs(SubSeq(ShiftLeft(p, x.e), 1, 3))
           ELSE NatOfLimbs(SubSeq(ShiftRight(p, 0 - x.e), 1, 3)) + Bit(p, 0 - x.e - 1)
  IN  [whole    |-> n \div 10^digits,
       decimals |-> [k \in 1..digits |-> (n \div 10^(digits - k)) % 10]]

DigitChar(d) ==
  CASE d = 0 -> "0" [] d = 1 -> "1" [] d = 2 -> "2" [] d = 3 -> "3" [] d = 4 -> "4"
    [] d = 5 -> "5" [] d = 6 -> "6" [] d = 7 -> "7" [] d = 8 -> "8" [] d = 9 -> "9"

\* the decimal digits of a natural number, as text
RECURSIVE NatText(_)
NatText(n) == IF n < 10 THEN DigitChar(n) ELSE NatText(n \div 10) \o DigitChar(n % 10)

RECURSIVE DigitsText(_)
DigitsText(ds) ==
  IF ds = << >> THEN "" ELSE DigitChar(ds[1]) \o DigitsText(SubSeq(ds, 2, Len(ds)))

\* the text toFixed returns
FixedText(x, digits) ==
  LET t == ToFixed(x, digits)
  IN  IF digits = 0 THEN NatText(t.whole)
      ELSE NatText(t.whole) \o "." \o DigitsText(t.decimals)

(***************************************************************************)
(* Configuration.                                                          *)
(***************************************************************************)
\* decimal literals of the presets: 0.01, 0.05, 0.1
TIP_AMOUNTS ==
  << [value |-> [num |-> 1, den |-> 100], label |-> "Coffee"],
     [value |-> [num |-> 5, den |-> 100], label |-> "Pizza"],
     [value |-> [num |-> 1, den |-> 10],  label |-> "Party"] >>

AmountValues == { TIP_AMOUNTS[i].value : i \in 1..Len(TIP_AMOUNTS) }

TIP_RECIPIENT == "hij78MKbJSSs15qvkHWTDCtnmba2c1W4r1V22g5sD8w"

LAMPORTS_PER_SOL == 1000000000

\* variant: the amount is floored before it is scaled
LamportsOf_floorFirst(amount) == MathFloor(ToDouble(amount)) * LAMPORTS_PER_SOL

\* Math.floor(selectedAmount * LAMPORTS_PER_SOL)
LamportsOf(amount) ==
  MathFloor(MulDouble(ToDouble(amount), FromInt(LAMPORTS_PER_SOL)))


(***************************************************************************)
(* The environment: what the wallet provider and the ledger may answer.    *)
(***************************************************************************)
\* smart-wallet addresses the provider may connect
Addresses == {"walletA", "walletB"}

\* transaction signatures signAndSendTransaction may resolve with
Signatures == {"abc123", "5hG7k"}

\* values a provider promise may reject with: Error instances carrying a
\* message (possibly empty) and a value that is not an Error
Rejections ==
  { [isError |-> TRUE,  message |-> "User rejected"],
    [isError |-> TRUE,  message |-> ""],
    [isError |-> FALSE, message |-> "timeout"] }

\* lamport counts getBalance may return
LedgerBalances == {0, 50000000, 1234567890}

\* bal / LAMPORTS_PER_SOL for each balance the ledger may report
Sol == [bal \in LedgerBalances |-> DivInts(bal, LAMPORTS_PER_SOL)]

Statuses == {"idle", "connecting", "confirming", "sending", "success", "error"}

(***************************************************************************)
(* State.                                                                  *)
(***************************************************************************)
VARIABLES
  isConnected,        \* useWallet(): connection flag
  isLoading,          \* useWallet(): true during the provider's async operations
  smartWalletPubkey,  \* useWallet(): Null or the connected address
  selectedAmount,     \* useState: the selected preset (its decimal literal)
  status,             \* useState<Status>
  error,              \* useState<string | null>
  txSignature,        \* useState<string | null>
  balance,            \* useState<number | null>: Null or lamports / LAMPORTS_PER_SOL
  calls,              \* provider promises, in the order they were created
  reads,              \* getBalance promises in flight, in the order they were issued
  interval,           \* the live setInterval timers: for each, the address its callback closes over
  tick,               \* TRUE while a callback of the active interval is queued
  staleTick,          \* TRUE while a callback of a cleared interval is still queued
  mounted,            \* FALSE once the component has been unmounted
  unhandled           \* TRUE while a rejection nobody handles waits to be reported

vars == << isConnected, isLoading, smartWalletPubkey, selectedAmount, status,
           error, txSignature, balance, calls, reads, interval, tick,
           staleTick, mounted, unhandled >>

providerVars == << isConnected, isLoading, smartWalletPubkey >>
pollerVars   == << balance, reads, interval, tick, staleTick >>

Remove(seq, i) == SubSeq(seq, 1, i - 1) \o SubSeq(seq, i + 1, Len(seq))

Last(seq) == seq[Len(seq)]

\* a string or null used as a condition
Truthy(o) == o # Null /\ Val(o) # ""

(***************************************************************************)
(* Provider promises.                                                      *)
(***************************************************************************)
\* a promise is pending, or settled with the value it resolved or rejected with
Pending == [state |-> "pending"]

IsPending(c) == c.outcome.state = "pending"

PendingCalls(cs) == { i \in 1..Len(cs) : IsPending(cs[i]) }

\* a settled promise whose awaiting handler has not run yet: its
\* continuation is a microtask and runs before any other event, and so does
\* the report of a rejection that has no handler
NoMicrotask == ~unhandled /\ \A i \in 1..Len(calls) : IsPending(calls[i])

\* the render a handler was created in
Render == [selectedAmount |-> selectedAmount, status |-> status]

\* connect({ feeMode: 'paymaster' })
ConnectCall ==
  [kind |-> "connect", args |-> << [feeMode |-> "paymaster"] >>,
   render |-> Render, outcome |-> Pending]

\* variant: the transfer is addressed to the sender
TransferInstruction_toSender(from, amount) ==
  [fromPubkey |-> from, toPubkey |-> from, lamports |-> LamportsOf(amount)]

\* SystemProgram.transfer({ fromPubkey, toPubkey, lamports })
TransferInstruction(from, amount) ==
  [fromPubkey |-> from, toPubkey |-> TIP_RECIPIENT, lamports |-> LamportsOf(amount)]

\* signAndSendTransaction({ instructions, transactionOptions })
SignCall ==
  [kind |-> "sign",
   args |-> << [instructions |-> << TransferInstruction(Val(smartWalletPubkey), selectedAmount) >>,
                transactionOptions |-> [clusterSimulation |-> "devnet"]] >>,
   render |-> Render, outcome |-> Pending]

\* disconnect()
DisconnectCall ==
  [kind |-> "disconnect", args |-> << >>, outcome |-> Pending]

(***************************************************************************)
(* Derived values of a render.                                             *)
(***************************************************************************)
\* variant: the provider's isLoading is not consulted
\* variant: the main button is never disabled
isButtonDisabled_never == FALSE

isButtonDisabled_statusOnly == status \in {"connecting", "confirming", "sending"}

\* disabled attribute of the main button
isButtonDisabled == isLoading \/ status \in {"connecting", "confirming", "sending"}

\* variant: the form stays rendered after a success
View_formOnly == "form"

\* which branch of AnimatePresence is rendered
View == IF status = "success" /\ Truthy(txSignature) THEN "success" ELSE "form"

\* the wallet info block, with the Disconnect button
WalletInfoShown == View = "form" /\ isConnected /\ smartWalletPubkey # Null

\* variant: the link names another cluster
ExplorerHref_mainnet(sig) == "https://explorer.solana.com/tx/" \o sig \o "?cluster=mainnet-beta"

\* href of the "View on Explorer" link
ExplorerHref(sig) == "https://explorer.solana.com/tx/" \o sig \o "?cluster=devnet"

\* the text of the balance line: {balance.toFixed(4)} SOL
BalanceText_twoDecimals(b) == FixedText(b, 2) \o " SOL"

BalanceText(b) == FixedText(b, 4) \o " SOL"

\* the balance lines of the balances the component can hold
BalanceTexts == [b \in {Sol[bal] : bal \in LedgerBalances} |-> BalanceText(b)]

\* the balance line of the wallet info block, Null when it is not rendered
BalanceLine ==
  IF WalletInfoShown /\ balance # Null THEN Some(BalanceTexts[Val(balance)]) ELSE Null

\* the link the current render shows, if any
Href == IF View = "success" THEN Some(ExplorerHref(Val(txSignature))) ELSE Null

(***************************************************************************)
(* The balance poller (useEffect on smartWalletPubkey).                    *)
(***************************************************************************)
\* variant: the cleanup leaves the interval running
Cleanup_keepInterval(p) == p

\* the effect's cleanup: clearInterval(interval); a callback that was
\* already queued for the cleared handle never runs
Cleanup(p) ==
  [p EXCEPT !.interval = Null, !.tick = FALSE, !.staleTick = p.staleTick \/ p.tick]

\* variant: fetchBalance() issues no read
FetchBalance_none(p, key) == p

\* fetchBalance(): connection.getBalance(smartWalletPubkey)
FetchBalance(p, key) == [p EXCEPT !.reads = Append(p.reads, [pubkey |-> Val(key)])]

Poller ==
  [balance |-> balance, reads |-> reads, interval |-> interval,
   tick |-> tick, staleTick |-> staleTick]

\* the effect as React runs it when the provider publishes key: nothing if the
\* dependency is unchanged, else the previous cleanup and then the body
BalanceEffect(key) ==
  IF ~mounted \/ key = smartWalletPubkey THEN Poller
  ELSE LET p == Cleanup(Poller)
       IN  IF key = Null
           THEN [p EXCEPT !.balance = Null]
           ELSE [FetchBalance(p, key) EXCEPT !.interval = p.interval \o key]

SetPoller(p) ==
  /\ balance' = p.balance
  /\ reads' = p.reads
  /\ interval' = p.interval
  /\ tick' = p.tick
  /\ staleTick' = p.staleTick

(***************************************************************************)
(* Initial state: the first render, provider disconnected.                 *)
(***************************************************************************)
Init ==
  /\ isConnected = FALSE
  /\ isLoading = FALSE
  /\ smartWalletPubkey = Null
  /\ selectedAmount = TIP_AMOUNTS[1].value
  /\ status = "idle"
  /\ error = Null
  /\ txSignature = Null
  /\ balance = Null
  /\ calls = << >>
  /\ reads = << >>
  /\ interval = Null
  /\ tick = FALSE
  /\ staleTick = FALSE
  /\ mounted = TRUE
  /\ unhandled = FALSE


(***************************************************************************)
(* User events.                                                            *)
(***************************************************************************)
\* variant: the payment branch announces 'sending' before 'confirming'
PaymentStatusUpdates_sendingFirst == << "sending", "confirming" >>

\* variant: the payment branch never announces 'sending'
PaymentStatusUpdates_noSending == << "confirming" >>

\* the setStatus calls of the payment branch before its await
PaymentStatusUpdates == << "confirming", "sending" >>

\* variant: the awaited provider call is made a second time
Issue_twice(cs, call) == Append(Append(cs, call), call)

\* await connect(...) / await signAndSendTransaction(...): the one provider
\* call handleAction makes
Issue(cs, call) == Append(cs, call)

\* variant: the previous message is kept
ClearError_skip(e) == e

\* setError(null), the first statement of handleAction
ClearError(e) == Null

\* the main button: the part of handleAction that runs up to its first await.
\* The status updates of one event are batched: the last one is rendered.
handleAction ==
  /\ mounted /\ NoMicrotask
  /\ View = "form" /\ ~isButtonDisabled
  /\ error' = ClearError(error)
  /\ IF ~isConnected
     THEN /\ Len(calls) < MaxCalls
          /\ status' = "connecting"
          /\ calls' = Issue(calls, ConnectCall)
          /\ isLoading' = TRUE
     ELSE IF smartWalletPubkey = Null
     THEN UNCHANGED << status, calls, isLoading >>
     ELSE /\ Len(calls) < MaxCalls
          /\ status' = Last(PaymentStatusUpdates)
          /\ calls' = Issue(calls, SignCall)
          /\ isLoading' = TRUE
  /\ UNCHANGED << isConnected, smartWalletPubkey, selectedAmount, txSignature,
                  pollerVars, mounted, unhandled >>

\* the component's own state, as its callbacks see it
Widget ==
  [status |-> status, error |-> error, txSignature |-> txSignature,
   selectedAmount |-> selectedAmount, balance |-> balance, interval |-> interval]

\* variant: the catch block always stores the generic text
CatchMessage_generic(err) == "Something went wrong"

\* the message the catch block stores
CatchMessage(err) == IF err.isError THEN err.message ELSE "Something went wrong"

\* variant: the catch block does not set status
Failed_keepStatus(w, err) == [w EXCEPT !.error = Some(CatchMessage(err))]

\* variant: the catch block does not store the message
Failed_noMessage(w, err) == [w EXCEPT !.status = "error"]

\* the catch block of handleAction
Failed(w, err) == [w EXCEPT !.error = Some(CatchMessage(err)), !.status = "error"]

\* variant: status is left as it is after the awaited connect
Connected_stayConnecting(w) == w

\* after the awaited connect: setStatus('idle')
Connected(w) == [w EXCEPT !.status = "idle"]

\* variant: the signature is not stored
Succeeded_noSignature(w, sig) == [w EXCEPT !.status = "success"]

\* after the awaited signAndSendTransaction: setTxSignature, setStatus('success')
Succeeded(w, sig) == [w EXCEPT !.txSignature = Some(sig), !.status = "success"]

\* the rest of handleAction, run when the promise it awaits has settled
handleActionResume(i) ==
  /\ i \in 1..Len(calls)
  /\ ~IsPending(calls[i])
  /\ calls[i].kind \in {"connect", "sign"}
  /\ calls' = Remove(calls, i)
  /\ LET w == IF ~mounted THEN Widget
              ELSE IF calls[i].outcome.state = "rejected"
              THEN Failed(Widget, calls[i].outcome.value)
              ELSE IF calls[i].kind = "connect"
              THEN Connected(Widget)
              ELSE Succeeded(Widget, calls[i].outcome.value.signature)
     IN  /\ status' = w.status
         /\ error' = w.error
         /\ txSignature' = w.txSignature
  /\ UNCHANGED << providerVars, selectedAmount, pollerVars, mounted, unhandled >>

\* the Disconnect button: () => disconnect(), nothing awaits the promise
clickDisconnect ==
  /\ mounted /\ NoMicrotask
  /\ WalletInfoShown
  /\ Len(calls) < MaxCalls
  /\ calls' = Append(calls, DisconnectCall)
  /\ isLoading' = TRUE
  /\ UNCHANGED << isConnected, smartWalletPubkey, selectedAmount, status, error,
                  txSignature, pollerVars, mounted, unhandled >>

\* a preset button: setSelectedAmount(amount.value)
selectAmount(v) ==
  /\ mounted /\ NoMicrotask
  /\ View = "form"
  /\ selectedAmount' = v
  /\ UNCHANGED << providerVars, status, error, txSignature, calls, pollerVars,
                  mounted, unhandled >>

\* variant: reset() forgets to clear the signature
reset_keepSignature(w) == [w EXCEPT !.status = "idle", !.error = Null]

\* variant: reset() also forgets the cached balance
reset_clearBalance(w) ==
  [w EXCEPT !.status = "idle", !.error = Null, !.txSignature = Null,
            !.balance = Null]

reset(w) == [w EXCEPT !.status = "idle", !.error = Null, !.txSignature = Null]

\* a call of reset()
resetCall ==
  /\ LET w == reset(Widget)
     IN  /\ status' = w.status
         /\ error' = w.error
         /\ txSignature' = w.txSignature
         /\ selectedAmount' = w.selectedAmount
         /\ balance' = w.balance
         /\ interval' = w.interval
  /\ UNCHANGED << providerVars, calls, reads, tick, staleTick, mounted, unhandled >>

\* the "Send another tip" button of the success view
clickReset ==
  /\ mounted /\ NoMicrotask
  /\ View = "success"
  /\ resetCall

\* the component is unmounted: the effect's cleanup runs
unmount ==
  /\ mounted /\ NoMicrotask
  /\ mounted' = FALSE
  /\ SetPoller(Cleanup(Poller))
  /\ UNCHANGED << providerVars, selectedAmount, status, error, txSignature,
                  calls, unhandled >>

(***************************************************************************)
(* The wallet provider.                                                    *)
(***************************************************************************)
Settle(i, st, v) == [calls EXCEPT ![i].outcome = [state |-> st, value |-> v]]

\* connect resolves: the session is connected; key is the address published
\* with it, or Null when the address is published later
connectResolves(i, key) ==
  /\ NoMicrotask
  /\ i \in 1..Len(calls) /\ calls[i].kind = "connect" /\ IsPending(calls[i])
  /\ key # Null => Len(reads) < MaxInFlight
  /\ calls' = Settle(i, "resolved", [smartWallet |-> key])
  /\ isConnected' = TRUE
  /\ smartWalletPubkey' = key
  /\ isLoading' = (PendingCalls(calls') # {})
  /\ SetPoller(BalanceEffect(key))
  /\ UNCHANGED << selectedAmount, status, error, txSignature, mounted, unhandled >>

\* the address of a connected session is published
addressPublished(key) ==
  /\ NoMicrotask
  /\ isConnected /\ smartWalletPubkey = Null /\ key # Null
  /\ Len(reads) < MaxInFlight
  /\ smartWalletPubkey' = key
  /\ SetPoller(BalanceEffect(key))
  /\ UNCHANGED << isConnected, isLoading, selectedAmount, status, error,
                  txSignature, calls, mounted, unhandled >>

connectRejects(i, err) ==
  /\ NoMicrotask
  /\ i \in 1..Len(calls) /\ calls[i].kind = "connect" /\ IsPending(calls[i])
  /\ calls' = Settle(i, "rejected", err)
  /\ isLoading' = (PendingCalls(calls') # {})
  /\ UNCHANGED << isConnected, smartWalletPubkey, selectedAmount, status, error,
                  txSignature, pollerVars, mounted, unhandled >>

signResolves(i, sig) ==
  /\ NoMicrotask
  /\ i \in 1..Len(calls) /\ calls[i].kind = "sign" /\ IsPending(calls[i])
  /\ calls' = Settle(i, "resolved", [signature |-> sig])
  /\ isLoading' = (PendingCalls(calls') # {})
  /\ UNCHANGED << isConnected, smartWalletPubkey, selectedAmount, status, error,
                  txSignature, pollerVars, mounted, unhandled >>

signRejects(i, err) ==
  /\ NoMicrotask
  /\ i \in 1..Len(calls) /\ calls[i].kind = "sign" /\ IsPending(calls[i])
  /\ calls' = Settle(i, "rejected", err)
  /\ isLoading' = (PendingCalls(calls') # {})
  /\ UNCHANGED << isConnected, smartWalletPubkey, selectedAmount, status, error,
                  txSignature, pollerVars, mounted, unhandled >>

\* disconnect resolves: the session is cleared
disconnectResolves(i) ==
  /\ NoMicrotask
  /\ i \in 1..Len(calls) /\ calls[i].kind = "disconnect" /\ IsPending(calls[i])
  /\ calls' = Remove(calls, i)
  /\ isConnected' = FALSE
  /\ smartWalletPubkey' = Null
  /\ isLoading' = (PendingCalls(calls') # {})
  /\ SetPoller(BalanceEffect(Null))
  /\ UNCHANGED << selectedAmount, status, error, txSignature, mounted, unhandled >>

\* disconnect rejects: no handler is attached to the promise
disconnectRejects(i) ==
  /\ NoMicrotask
  /\ i \in 1..Len(calls) /\ calls[i].kind = "disconnect" /\ IsPending(calls[i])
  /\ calls' = Remove(calls, i)
  /\ isLoading' = (PendingCalls(calls') # {})
  /\ unhandled' = TRUE
  /\ UNCHANGED << isConnected, smartWalletPubkey, selectedAmount, status, error,
                  txSignature, pollerVars, mounted >>

\* the runtime reports the rejection nobody handled ('unhandledrejection')
rejectionReported ==
  /\ unhandled
  /\ unhandled' = FALSE
  /\ UNCHANGED << providerVars, selectedAmount, status, error, txSignature,
                  calls, pollerVars, mounted >>

(***************************************************************************)
(* The interval timer and the ledger.                                      *)
(***************************************************************************)
\* 10000 ms have elapsed on the active interval: its callback is queued
timerElapses ==
  /\ NoMicrotask
  /\ interval # Null /\ ~tick
  /\ tick' = TRUE
  /\ UNCHANGED << providerVars, selectedAmount, status, error, txSignature,
                  calls, balance, reads, interval, staleTick, mounted, unhandled >>

\* the queued callback of the active interval runs: fetchBalance()
tickRuns ==
  /\ NoMicrotask
  /\ tick
  /\ Len(reads) < MaxInFlight
  /\ SetPoller([FetchBalance(Poller, interval) EXCEPT !.tick = FALSE])
  /\ UNCHANGED << providerVars, selectedAmount, status, error, txSignature,
                  calls, mounted, unhandled >>

\* the queued callback of a cleared interval is dropped by the runtime
staleTickDropped ==
  /\ NoMicrotask
  /\ staleTick
  /\ staleTick' = FALSE
  /\ UNCHANGED << providerVars, selectedAmount, status, error, txSignature,
                  calls, balance, reads, interval, tick, mounted, unhandled >>

\* getBalance resolves with n lamports: setBalance(bal / LAMPORTS_PER_SOL);
\* rs is reads as the step leaves the other reads
ReadResolved(i, n, rs) ==
  /\ NoMicrotask
  /\ i \in 1..Len(reads)
  /\ reads' = Remove(rs, i)
  /\ balance' = IF mounted THEN Some(Sol[n]) ELSE balance
  /\ UNCHANGED << providerVars, selectedAmount, status, error, txSignature,
                  calls, interval, tick, staleTick, mounted, unhandled >>

readResolves(i, n) == ReadResolved(i, n, reads)

\* a read that was still in flight when a read issued after it stored its
\* result
Overtaken(r) == "overtaken" \in DOMAIN r

\* reads[i] stores its result: the reads issued before it are overtaken
Overtake(rs, i) ==
  [j \in 1..Len(rs) |->
     IF j < i THEN [pubkey |-> rs[j].pubkey, overtaken |-> TRUE] ELSE rs[j]]

\* readResolves, keeping track of the reads it overtakes
readOvertakes(i, n) ==
  ReadResolved(i, n, IF mounted THEN Overtake(reads, i) ELSE reads)

\* variant: a failed read forgets the cached balance
FetchFailed_clearBalance(p) == [p EXCEPT !.balance = Null]

\* variant: a failed read clears the interval
FetchFailed_clearInterval(p) == Cleanup(p)

\* the catch block of fetchBalance: console.error only
FetchFailed(p) == p

\* getBalance rejects: the error is logged
readRejects(i) ==
  /\ NoMicrotask
  /\ i \in 1..Len(reads)
  /\ SetPoller([FetchFailed(Poller) EXCEPT !.reads = Remove(reads, i)])
  /\ UNCHANGED << providerVars, selectedAmount, status, error, txSignature,
                  calls, mounted, unhandled >>

(***************************************************************************)
(* Specification.                                                          *)
(***************************************************************************)
Next ==
  \/ handleAction
  \/ \E i \in 1..Len(calls) : handleActionResume(i)
  \/ clickDisconnect
  \/ \E v \in AmountValues : selectAmount(v)
  \/ clickReset
  \/ unmount
  \/ \E i \in 1..Len(calls), key \in {Null} \cup {Some(a) : a \in Addresses} :
       connectResolves(i, key)
  \/ \E a \in Addresses : addressPublished(Some(a))
  \/ \E i \in 1..Len(calls), err \in Rejections : connectRejects(i, err)
  \/ \E i \in 1..Len(calls), sig \in Signatures : signResolves(i, sig)
  \/ \E i \in 1..Len(calls), err \in Rejections : signRejects(i, err)
  \/ \E i \in 1..Len(calls) : disconnectResolves(i)
  \/ \E i \in 1..Len(calls) : disconnectRejects(i)
  \/ rejectionReported
  \/ timerElapses
  \/ tickRuns
  \/ staleTickDropped
  \/ \E i \in 1..Len(reads), n \in LedgerBalances : readResolves(i, n)
  \/ \E i \in 1..Len(reads) : readRejects(i)

Spec == Init /\ [][Next]_vars

(***************************************************************************)
(* Scheduling.  The continuation of a settled promise is a microtask, which *)
(* the runtime runs before any other event; a queued timer callback is run  *)
(* or dropped by the event loop; the interval keeps elapsing while it is    *)
(* live.  That every connect and signAndSendTransaction call and every      *)
(* getBalance read eventually settles is what the provider and the RPC node *)
(* are assumed to do, whatever else the page is doing meanwhile: a settle   *)
(* is never lost because a step of the event loop came first, hence strong  *)
(* fairness.  Nothing is assumed of the user.                               *)
(***************************************************************************)
Microtasks == \E i \in 1..Len(calls) : handleActionResume(i)

ConnectSettles ==
  \E i \in 1..Len(calls) :
    \/ \E key \in {Null} \cup {Some(a) : a \in Addresses} : connectResolves(i, key)
    \/ \E err \in Rejections : connectRejects(i, err)

SignSettles ==
  \E i \in 1..Len(calls) :
    \/ \E sig \in Signatures : signResolves(i, sig)
    \/ \E err \in Rejections : signRejects(i, err)

ReadSettles ==
  \E i \in 1..Len(reads) :
    \/ \E n \in LedgerBalances : readResolves(i, n)
    \/ readRejects(i)

ProviderSettles == ConnectSettles \/ SignSettles

ProviderFairness ==
  /\ WF_vars(Microtasks \/ rejectionReported)
  /\ SF_vars(ProviderSettles)

Scheduling ==
  /\ ProviderFairness
  /\ WF_vars(ReadSettles)
  /\ WF_vars(\E a \in Addresses : addressPublished(Some(a)))
  /\ WF_vars(timerElapses)
  /\ WF_vars(tickRuns \/ staleTickDropped)

FairSpec == Spec /\ ProviderFairness

\* a getBalance read resolves
ReadSucceeds ==
  \E i \in 1..Len(reads), n \in LedgerBalances : readResolves(i, n)

\* the poller at work: a live interval keeps elapsing and its callback keeps
\* running whatever else the page does, and reads keep succeeding
PollSpec ==
  /\ Spec
  /\ WF_vars(Microtasks \/ rejectionReported)
  /\ SF_vars(timerElapses \/ tickRuns)
  /\ SF_vars(ReadSucceeds)

\* the user picks an amount, clicks the main button of the disconnected
\* component and does nothing else
NextOneTap ==
  \/ \E v \in AmountValues : selectAmount(v) /\ ~isConnected /\ status = "idle"
  \/ handleAction /\ ~isConnected
  \/ Microtasks
  \/ ConnectSettles
  \/ \E a \in Addresses : addressPublished(Some(a))
  \/ timerElapses
  \/ tickRuns
  \/ ReadSettles

OneTapSpec == Init /\ [][NextOneTap]_vars /\ Scheduling

\* the poller alone: the user connects and disconnects and sends no tip,
\* and the order in which reads store their results is kept track of
NextRace ==
  \/ handleAction /\ ~isConnected
  \/ Microtasks
  \/ clickDisconnect
  \/ ConnectSettles
  \/ \E a \in Addresses : addressPublished(Some(a))
  \/ \E i \in 1..Len(calls) : disconnectResolves(i)
  \/ timerElapses
  \/ tickRuns
  \/ staleTickDropped
  \/ \E i \in 1..Len(reads), n \in LedgerBalances : readOvertakes(i, n)
  \/ \E i \in 1..Len(reads) : readRejects(i)

RaceSpec == Init /\ [][NextRace]_vars

(***************************************************************************)
(* reset() applied to every state of the component.                        *)
(***************************************************************************)
InitAny ==
  /\ isConnected \in BOOLEAN
  /\ isLoading = FALSE
  /\ smartWalletPubkey \in {Null} \cup {Some(a) : a \in Addresses}
  /\ selectedAmount \in AmountValues
  /\ status \in Statuses
  /\ error \in {Null} \cup {Some(CatchMessage(r)) : r \in Rejections}
  /\ txSignature \in {Null} \cup {Some(sig) : sig \in Signatures}
  /\ balance \in {Null} \cup {Some(Sol[n]) : n \in LedgerBalances}
  /\ calls = << >>
  /\ reads = << >>
  /\ interval \in {Null} \cup {Some(a) : a \in Addresses}
  /\ tick = FALSE
  /\ staleTick = FALSE
  /\ mounted = TRUE
  /\ unhandled = FALSE

NextReset == resetCall

SpecReset == InitAny /\ [][NextReset]_vars

(***************************************************************************)
(* Properties.                                                             *)
(***************************************************************************)
\* C1: status is never 'confirming' or 'sending' while the connected account
\* address is null.
C1_BusyImpliesAddress ==
  status \in {"confirming", "sending"} => smartWalletPubkey # Null

\* C2: at most one provider call (connect, signAndSendTransaction or
\* disconnect) is outstanding at any time.
C2_OneOutstandingCall == Cardinality(PendingCalls(calls)) <= 1

\* C3 as stated: a connect or signAndSendTransaction call is issued only by
\* a click made while status is 'idle'.
C3_AttemptOnlyFromIdle ==
  \A i \in 1..Len(calls) :
    calls[i].kind \in {"connect", "sign"} => calls[i].render.status = "idle"

\* C3 amended: a connect or signAndSendTransaction call is issued only by a
\* click made while status is 'idle' or 'error'.
C3_AttemptFromIdleOrError ==
  \A i \in 1..Len(calls) :
    calls[i].kind \in {"connect", "sign"} => calls[i].render.status \in {"idle", "error"}

\* a call issued by a click on the main button in the Error state
C3_RetryFromError ==
  \E i \in 1..Len(calls) :
    /\ calls[i].kind \in {"connect", "sign"}
    /\ calls[i].render.status = "error"
    /\ IsPending(calls[i])

\* C4 as stated: status enters 'success' or 'error' only from 'sending'.
C4_TerminalOnlyFromSending ==
  [][(status' # status /\ status' \in {"success", "error"}) => status = "sending"]_vars

\* C4 amended: status enters 'success' only from 'sending', and enters
\* 'error' only from 'sending' or 'connecting'.
C4_TerminalFromSendingOrConnecting ==
  [][/\ (status' # status /\ status' = "success") => status = "sending"
     /\ (status' # status /\ status' = "error") => status \in {"sending", "connecting"}]_vars

\* the Error state left by a rejected connect
C4_ErrorAfterConnect ==
  /\ status = "error"
  /\ error = Some("User rejected")
  /\ ~isConnected
  /\ smartWalletPubkey = Null
  /\ calls = << >>
  /\ balance = Null /\ reads = << >>

\* C5: a getBalance read is issued only in a step that leaves the component
\* mounted with a non-null account address.
C5_NoReadWithoutAddress ==
  [][Len(reads') > Len(reads) => (smartWalletPubkey' # Null /\ mounted')]_vars

\* a tick was queued when the address became null
C5_TickPendingAtDisconnect ==
  /\ staleTick
  /\ smartWalletPubkey = Null
  /\ interval = Null
  /\ mounted

\* C6: whenever the account address is null, the cached balance is null.
C6_NoBalanceWithoutAddress == smartWalletPubkey = Null => balance = Null

\* C7: when the signAndSendTransaction call awaited by handleAction has
\* resolved with reference r, handleAction ends with status 'success',
\* txSignature r and the link https://explorer.solana.com/tx/<r>?cluster=devnet.
C7_ResolvedGivesSuccess ==
  [][\A i \in 1..Len(calls) :
       ( /\ mounted
         /\ calls[i].kind = "sign"
         /\ calls[i].outcome.state = "resolved"
         /\ calls' = Remove(calls, i) )
       => LET r == calls[i].outcome.value.signature
          IN  /\ status' = "success"
              /\ txSignature' = Some(r)
              /\ Href' = Some("https://explorer.solana.com/tx/" \o r \o "?cluster=devnet")
              /\ (r = "abc123" =>
                    Href' = Some("https://explorer.solana.com/tx/abc123?cluster=devnet"))]_vars

\* the success view for reference abc123
C7_SuccessShown ==
  /\ status = "success"
  /\ txSignature = Some("abc123")
  /\ Href = Some("https://explorer.solana.com/tx/abc123?cluster=devnet")

\* C8: when the connect or signAndSendTransaction call awaited by
\* handleAction has rejected with an Error carrying message m, handleAction
\* ends with status 'error' and error m, and txSignature stays unset.
C8_RejectedGivesError ==
  [][\A i \in 1..Len(calls) :
       ( /\ mounted
         /\ calls[i].kind \in {"connect", "sign"}
         /\ calls[i].outcome.state = "rejected"
         /\ calls[i].outcome.value.isError
         /\ calls[i].outcome.value.message # ""
         /\ calls' = Remove(calls, i) )
       => /\ status' = "error"
          /\ error' = Some(calls[i].outcome.value.message)
          /\ txSignature' = txSignature
          /\ txSignature' = Null]_vars

\* the Error state showing the provider's message
C8_ErrorShown ==
  /\ status = "error"
  /\ error = Some("User rejected")
  /\ txSignature = Null
  /\ calls = << >>

\* C9: reset() applied once and applied twice give the same state, with
\* status 'idle' and txSignature and error null; selectedAmount, the cached
\* balance and the poll timer are as before the call, in every state and
\* across every call.
C9_ResetIdempotent ==
  /\ [](LET once  == reset(Widget)
            twice == reset(reset(Widget))
        IN  /\ once = twice
            /\ once.status = "idle"
            /\ once.txSignature = Null
            /\ once.error = Null
            /\ once.selectedAmount = selectedAmount
            /\ once.balance = balance
            /\ once.interval = interval)
  /\ [][resetCall =>
          /\ status' = "idle" /\ txSignature' = Null /\ error' = Null
          /\ UNCHANGED << selectedAmount, balance, reads, interval, tick, staleTick >>
          /\ reset(Widget') = Widget']_vars

\* an Error state with every field set, to which reset() is applied
C9_ErrorStateToReset ==
  /\ status = "error"
  /\ error # Null
  /\ txSignature # Null
  /\ balance # Null
  /\ interval # Null
  /\ selectedAmount # TIP_AMOUNTS[1].value

\* C10: the transfer instruction of every signAndSendTransaction call carries
\* 10,000,000, 50,000,000 or 100,000,000 lamports for the preset 0.01, 0.05
\* or 0.1 that was selected when the main button was clicked, whatever is
\* selected afterwards.
C10_LamportsOfPreset ==
  \A i \in 1..Len(calls) :
    calls[i].kind = "sign" =>
      LET p  == calls[i].render.selectedAmount
          tx == calls[i].args[1].instructions[1]
      IN  /\ p \in AmountValues
          /\ p = [num |-> 1, den |-> 100] => tx.lamports = 10000000
          /\ p = [num |-> 5, den |-> 100] => tx.lamports = 50000000
          /\ p = [num |-> 1, den |-> 10]  => tx.lamports = 100000000
          /\ tx.lamports = (LAMPORTS_PER_SOL \div p.den) * p.num

\* a transfer of the 0.05 preset in flight while another preset is selected
C10_AmountChangedInFlight ==
  \E i \in 1..Len(calls) :
    /\ calls[i].kind = "sign"
    /\ IsPending(calls[i])
    /\ calls[i].render.selectedAmount = [num |-> 5, den |-> 100]
    /\ calls[i].args[1].instructions[1].lamports = 50000000
    /\ selectedAmount = [num |-> 1, den |-> 10]

\* C11: a getBalance read that resolves with n lamports while the component
\* is mounted sets balance to the double n / 1,000,000,000, and the wallet
\* info block, when rendered, shows it with exactly four decimals:
\* "0.0000 SOL" for 0, "0.0500 SOL" for 50,000,000 and "1.2346 SOL" for
\* 1,234,567,890.
C11_BalanceInSol ==
  /\ [][\A i \in 1..Len(reads), n \in LedgerBalances :
          (mounted /\ readResolves(i, n)) => balance' = Some(Sol[n])]_vars
  /\ [](WalletInfoShown /\ balance # Null =>
          /\ balance = Some(Sol[0])          => BalanceLine = Some("0.0000 SOL")
          /\ balance = Some(Sol[50000000])   => BalanceLine = Some("0.0500 SOL")
          /\ balance = Some(Sol[1234567890]) => BalanceLine = Some("1.2346 SOL")
          /\ \E n \in LedgerBalances : balance = Some(Sol[n]))

C11_FiftyMillionShown ==
  /\ WalletInfoShown
  /\ balance = Some(Sol[50000000])
  /\ BalanceLine = Some("0.0500 SOL")

\* the connect and signAndSendTransaction calls among cs
ProviderRequests(cs) == {i \in 1..Len(cs) : cs[i].kind \in {"connect", "sign"}}

\* C12: every step adds at most one connect or signAndSendTransaction call,
\* a call is added only by a click on the main button (never by the
\* continuation that handles a failure), and a click adds exactly one connect
\* call when the provider is not connected, exactly one signAndSendTransaction
\* call when it is connected with a non-null address, and no call otherwise.
C12_OneCallPerClick ==
  [][LET added == Cardinality(ProviderRequests(calls'))
                    - Cardinality(ProviderRequests(calls))
     IN  /\ added <= 1
         /\ added = 1 => handleAction
         /\ handleAction =>
              /\ ~isConnected =>
                   added = 1 /\ Last(calls').kind = "connect"
              /\ isConnected /\ smartWalletPubkey # Null =>
                   added = 1 /\ Last(calls').kind = "sign"
              /\ isConnected /\ smartWalletPubkey = Null => added = 0
    ]_vars

C12_FailedAndNotRetried ==
  /\ status = "error"
  /\ isConnected /\ smartWalletPubkey # Null
  /\ ProviderRequests(calls) = {}

\* C13: isButtonDisabled is true exactly when isLoading is true or status is
\* 'connecting', 'confirming' or 'sending', and handleAction is never started
\* by a click while that holds.
C13_BusyBlocksAction ==
  /\ [](isButtonDisabled <=>
          (isLoading \/ status \in {"connecting", "confirming", "sending"}))
  /\ [][handleAction =>
          ~(isLoading \/ status \in {"connecting", "confirming", "sending"})]_vars

C13_BusyByLoadingOnly ==
  /\ mounted /\ View = "form"
  /\ status = "idle" /\ isLoading
  /\ isButtonDisabled

\* C14: a step of the mounted component that makes smartWalletPubkey non-null
\* or replaces it by another address issues exactly one getBalance read for
\* the new address and leaves one interval timer for it with no callback
\* queued; at most one interval timer is live at any time; and while the
\* component is mounted a timer is live exactly when smartWalletPubkey is
\* non-null (the cleanup of the unmounted component has cleared it).
C14_OneTimerPerAddress ==
  /\ [][(mounted /\ smartWalletPubkey' # Null
           /\ smartWalletPubkey' # smartWalletPubkey) =>
          /\ reads' = Append(reads, [pubkey |-> Val(smartWalletPubkey')])
          /\ interval' = smartWalletPubkey'
          /\ ~tick']_vars
  /\ [](Len(interval) <= 1)
  /\ [](mounted => (interval # Null <=> smartWalletPubkey # Null))
  /\ [](~mounted => interval = Null)

C14_SecondAddressPolled ==
  /\ mounted
  /\ smartWalletPubkey = Some("walletB")
  /\ interval = Some("walletB")
  /\ reads = << [pubkey |-> "walletA"], [pubkey |-> "walletB"] >>

\* C15: a getBalance read that rejects leaves balance, status, error and
\* txSignature unchanged and leaves the interval timer and its queued
\* callback as they were; every callback of the timer that runs afterwards
\* issues a read for the timer's address.
C15_FailedReadChangesNothing ==
  /\ [][\A i \in 1..Len(reads) :
          readRejects(i) =>
            UNCHANGED << balance, status, error, txSignature, interval, tick >>]_vars
  /\ [][tickRuns => reads' = Append(reads, [pubkey |-> Val(interval)])]_vars

C15_TickQueuedAfterFailure ==
  /\ mounted
  /\ interval # Null /\ tick
  /\ balance = Null /\ reads = << >>

\* C16: selectedAmount is always one of the TIP_AMOUNTS values, and a step
\* changes it only while status is 'idle'.
C16_AmountChangesOnlyInIdle ==
  /\ [](selectedAmount \in AmountValues)
  /\ [][selectedAmount' # selectedAmount => status = "idle"]_vars

\* C17: txSignature is non-null exactly when status is 'success'.
C17_SignatureIffSuccess == txSignature # Null <=> status = "success"

C17_SignatureHeld ==
  /\ status = "success"
  /\ txSignature = Some("5hG7k")
  /\ calls = << >>

\* C18: error is non-null exactly when status is 'error'; a step gives
\* error a new non-null value only by taking status from another value to
\* 'error'; and a step that takes status away from 'error' leaves error null.
C18_ErrorIffErrorStatus ==
  /\ [](error # Null <=> status = "error")
  /\ [][(error' # Null /\ error' # error) =>
          (status # "error" /\ status' = "error")]_vars
  /\ [][(status = "error" /\ status' # "error") => error' = Null]_vars

C18_ErrorClearedByRetry ==
  /\ status = "connecting"
  /\ error = Null
  /\ \E i \in 1..Len(calls) :
       calls[i].kind = "connect" /\ calls[i].render.status = "error"

C20_NoUnhandledRejection == ~unhandled

\* C21: every connect call carries feeMode 'paymaster'; every
\* signAndSendTransaction call carries one transfer instruction whose
\* toPubkey is hij78MKbJSSs15qvkHWTDCtnmba2c1W4r1V22g5sD8w; and the
\* fromPubkey of a call is the smartWalletPubkey of the render in which the
\* main button was clicked.
C21_FixedRecipientAndFeeMode ==
  /\ [](\A i \in 1..Len(calls) :
          /\ calls[i].kind = "connect" =>
               calls[i].args = << [feeMode |-> "paymaster"] >>
          /\ calls[i].kind = "sign" =>
               /\ Len(calls[i].args[1].instructions) = 1
               /\ calls[i].args[1].instructions[1].toPubkey
                    = "hij78MKbJSSs15qvkHWTDCtnmba2c1W4r1V22g5sD8w")
  /\ [][(Len(calls') = Len(calls) + 1 /\ Last(calls').kind = "sign") =>
          /\ smartWalletPubkey # Null
          /\ Last(calls').args[1].instructions[1].fromPubkey
               = Val(smartWalletPubkey)]_vars

C21_TransferFromWalletBAfterDisconnect ==
  /\ smartWalletPubkey = Null
  /\ \E i \in 1..Len(calls) :
       /\ calls[i].kind = "sign"
       /\ calls[i].args[1].instructions[1].fromPubkey = "walletB"
       /\ calls[i].args[1].instructions[1].toPubkey = TIP_RECIPIENT

\* C22: when the user only picks an amount and clicks the main button of the
\* disconnected component, then once the connect call issued by a click in status 'idle'
\* has resolved, a signAndSendTransaction call is eventually issued.
C22_OneTapSubmits ==
  (\E i \in 1..Len(calls) :
     /\ calls[i].kind = "connect"
     /\ calls[i].outcome.state = "resolved"
     /\ calls[i].render.status = "idle")
  ~> (\E j \in 1..Len(calls) : calls[j].kind = "sign")

\* C23: a click on the main button while the provider is connected and
\* smartWalletPubkey is null issues no provider call and leaves status, error,
\* txSignature, selectedAmount and balance as they were; in particular error
\* is already null whenever that click is possible, so that handleAction's
\* setError(null) changes nothing.
C23_NoAddressNoOp ==
  /\ []((mounted /\ isConnected /\ smartWalletPubkey = Null
           /\ View = "form" /\ ~isButtonDisabled) => error = Null)
  /\ [][(handleAction /\ isConnected /\ smartWalletPubkey = Null) =>
          UNCHANGED << calls, status, error, txSignature, selectedAmount,
                       balance >>]_vars

C23_ClickWithoutAddress ==
  /\ mounted /\ isConnected /\ smartWalletPubkey = Null
  /\ View = "form" /\ ~isButtonDisabled
  /\ ENABLED handleAction

\* C24: whenever status is 'error', error holds a non-empty message.
C24_ErrorHasMessage == status = "error" => Truthy(error)

\* C25: with every provider call eventually settled, a mounted component
\* whose status is 'connecting', 'confirming' or 'sending' comes to leave
\* that status (or is unmounted first); status leaves it only in the
\* continuation of a settled call, never in a step of the user, and then
\* 'connecting' becomes 'idle' or 'error' and 'confirming' or 'sending'
\* becomes 'success' or 'error'.
C25_BusyEnds ==
  /\ (mounted /\ status \in {"connecting", "confirming", "sending"})
       ~> (status \in {"idle", "success", "error"} \/ ~mounted)
  /\ [][(status \in {"connecting", "confirming", "sending"} /\ status' # status) =>
          /\ \E i \in 1..Len(calls) :
               ~IsPending(calls[i]) /\ handleActionResume(i)
          /\ status = "connecting" => status' \in {"idle", "error"}
          /\ status \in {"confirming", "sending"} => status' \in {"success", "error"}]_vars

C25_SendingSurvivesDisconnect ==
  /\ mounted /\ status = "sending"
  /\ ~isConnected
  /\ \E i \in 1..Len(calls) : calls[i].kind = "sign" /\ IsPending(calls[i])

\* C26: a step of the poller (the interval elapsing, its callback running or
\* being dropped, a read resolving or rejecting, and every step in which a
\* timer is created or cleared) leaves status, error, txSignature and
\* selectedAmount unchanged; a step of the payment flow (handleAction and its
\* continuation, reset, selectAmount, a connect or signAndSendTransaction
\* call settling) leaves balance and the timers unchanged, unless it is a
\* settling call that changes the published address, the one value both
\* sides share.
C26_PollerAndPaymentUncoupled ==
  /\ [][(timerElapses \/ tickRuns \/ staleTickDropped \/ ReadSettles
            \/ interval' # interval)
          => UNCHANGED << status, error, txSignature, selectedAmount >>]_vars
  /\ [][(handleAction \/ Microtasks \/ clickReset
            \/ (\E v \in AmountValues : selectAmount(v))
            \/ (ProviderSettles /\ smartWalletPubkey' = smartWalletPubkey))
          => UNCHANGED << balance, interval, tick, staleTick, reads >>]_vars

\* a tip has succeeded while the poller of the same session holds a balance,
\* a live timer with a queued callback and a read in flight
C26_TipSucceededWhilePolling ==
  /\ mounted /\ status = "success" /\ txSignature # Null
  /\ balance # Null /\ interval # Null /\ tick /\ reads # << >>

\* every read that resolves in this step returns n lamports
OnlyReturns(n) ==
  \A i \in 1..Len(reads), m \in LedgerBalances \ {n} : ~readResolves(i, m)

\* C27: with the interval elapsing and reads succeeding again and again, if
\* the component stays mounted and connected to an address and from some
\* point on every read returns the same ledger balance n, then from some
\* point on the cached balance is n / LAMPORTS_PER_SOL and stays so.
C27_BalanceReconciled ==
  \A n \in LedgerBalances :
    (<>[](mounted /\ smartWalletPubkey # Null) /\ <>[][OnlyReturns(n)]_vars)
      => <>[](balance = Some(Sol[n]))

\* after a successful tip the cached balance is still the one read before it
\* and the read of a later tick is in flight
C27_ReadAfterTip ==
  /\ mounted /\ smartWalletPubkey # Null /\ status = "success"
  /\ balance = Some(Sol[1234567890])
  /\ interval # Null /\ ~tick /\ Len(reads) = 1

OpenActions(cs) == {i \in 1..Len(cs) : cs[i].kind \in {"connect", "sign"}}

\* C29: while a connect or signAndSendTransaction call is pending the main
\* button is disabled and status is 'connecting', 'confirming' or 'sending';
\* at most one such call is open at a time, and a new one is issued only when
\* none is.
C29_NoReentry ==
  /\ [](\A i \in OpenActions(calls) :
         IsPending(calls[i]) =>
           /\ isButtonDisabled
           /\ status \in {"connecting", "confirming", "sending"})
  /\ [](Cardinality(OpenActions(calls)) <= 1)
  /\ [][(Len(calls') > Len(calls) /\ Last(calls').kind \in {"connect", "sign"})
          => OpenActions(calls) = {}]_vars

\* connect is pending and the user has meanwhile picked another amount
C29_AmountPickedWhileConnecting ==
  /\ mounted /\ status = "connecting" /\ isButtonDisabled
  /\ \E i \in 1..Len(calls) :
       /\ calls[i].kind = "connect" /\ IsPending(calls[i])
       /\ calls[i].render.selectedAmount # selectedAmount

\* C30: when a read issued for the address connected now resolves in the
\* mounted component and stores its result, no read issued after it has
\* stored a result before it.
C30_LatestReadWins ==
  [][\A i \in 1..Len(reads), n \in LedgerBalances :
       ( /\ mounted
         /\ smartWalletPubkey = Some(reads[i].pubkey)
         /\ readOvertakes(i, n) )
       => ~Overtaken(reads[i])]_vars

====
